---- MODULE Spec2Model ----
(***************************************************************************)
(* A model of scripts/python/rea_scraper.py: the listing extraction        *)
(* pipeline (parse_json_listing, find_listings_recursive,                  *)
(* extract_listings_from_json, extract_listings_from_html), the per-page   *)
(* assembler scrape_page and the paging loop scrape_rea / main.            *)
(*                                                                         *)
(* Python values are tagged records.  A Python str is a sequence of        *)
(* one-character strings, so that str(), int(), float(), startswith, the   *)
(* regular expressions and the substring test are computed, not assumed.   *)
(* A dict is a sequence of <<key, value>> pairs in insertion order; keys   *)
(* are atoms.  A float is held in hundredths.                              *)
(***************************************************************************)
EXTENDS Integers, Sequences, FiniteSets, TLC

VARIABLES
    call,           \* extraction function under test: its name, or "done"
    arg,            \* its argument
    ret,            \* its outcome
    nest,           \* how many containers wrap the innermost object of arg
    mode,           \* main: "single" (--url given) or "multi"
    max_pages,      \* scrape_rea's max_pages (--pages)
    pc,             \* position in main / scrape_rea / scrape_page
    driver,         \* the browser session: "none", "open", "closed"
    quit_calls,     \* number of driver.quit() calls
    page_num,       \* scrape_rea's loop variable
    results,        \* scrape_rea's results dict
    seen_ids,       \* scrape_rea's seen_ids
    page_result,    \* scrape_page's result dict
    page_source,    \* scrape_page's page_source
    requested,      \* history: page numbers passed to driver.get, in order
    merged,         \* history: listings of the error-free pages, in order
    trace           \* history: extractor calls of the current scrape_page

vars == <<call, arg, ret, nest, mode, max_pages, pc, driver, quit_calls,
          page_num, results, seen_ids, page_result, page_source,
          requested, merged, trace>>

extractVars == <<call, arg, ret, nest>>

runVars == <<mode, max_pages, pc, driver, quit_calls, page_num, results,
             seen_ids, page_result, page_source, requested, merged, trace>>

(***************************************************************************)
(* Python values                                                           *)
(***************************************************************************)
PyNone == [t |-> "null"]

PyBool(b) == [t |-> "bool", v |-> b]

PyInt(n) == [t |-> "int", v |-> n]

\* a float, in hundredths: PyFloat(150) is 1.5
PyFloat(h) == [t |-> "float", v |-> h]

PyStr(s) == [t |-> "str", v |-> s]

PyList(xs) == [t |-> "list", v |-> xs]

PyDict(kv) == [t |-> "dict", v |-> kv]

EmptyDict == PyDict(<<>>)

\* bool(v)
Truthy(v) ==
    CASE v.t = "null" -> FALSE
      [] v.t = "bool" -> v.v
      [] v.t \in {"int", "float"} -> v.v # 0
      [] v.t \in {"str", "list", "dict"} -> Len(v.v) > 0

\* isinstance(v, dict), isinstance(v, list)
IsDict(v) == v.t = "dict"

IsList(v) == v.t = "list"

\* k in d
Has(d, k) == \E i \in 1..Len(d.v) : d.v[i][1] = k

\* d[k], for k in d
Item(d, k) == d.v[CHOOSE i \in 1..Len(d.v) : d.v[i][1] = k][2]

\* d.get(k, dflt)
Get(d, k, dflt) == IF Has(d, k) THEN Item(d, k) ELSE dflt

\* d[k] = x: in place when k is a key already, appended otherwise
Put(d, k, x) ==
    IF Has(d, k)
    THEN PyDict([i \in 1..Len(d.v) |->
                    IF d.v[i][1] = k THEN <<k, x>> ELSE d.v[i]])
    ELSE PyDict(Append(d.v, <<k, x>>))

\* a or b
PyOr(a, b) == IF Truthy(a) THEN a ELSE b

(***************************************************************************)
(* str(), repr(), int(), float()                                           *)
(***************************************************************************)
Digits == <<"0", "1", "2", "3", "4", "5", "6", "7", "8", "9">>

IsDigit(c) == \E i \in 1..10 : Digits[i] = c

DigitVal(c) == (CHOOSE i \in 1..10 : Digits[i] = c) - 1

RECURSIVE NatStr(_)
NatStr(n) ==
    IF n < 10 THEN <<Digits[n + 1]>>
    ELSE NatStr(n \div 10) \o <<Digits[(n % 10) + 1]>>

IntStr(n) == IF n < 0 THEN <<"-">> \o NatStr(-n) ELSE NatStr(n)

\* repr of a float held in hundredths: 150 is "1.5", 200 is "2.0"
FloatStr(h) ==
    LET a == IF h < 0 THEN -h ELSE h
        frac == a % 100
    IN  (IF h < 0 THEN <<"-">> ELSE <<>>) \o NatStr(a \div 100) \o <<".">> \o
        (IF frac % 10 = 0 THEN <<Digits[(frac \div 10) + 1]>>
         ELSE <<Digits[(frac \div 10) + 1], Digits[(frac % 10) + 1]>>)

RECURSIVE JoinRepr(_, _)
RECURSIVE PyRepr(_)
\* repr(v); a non-empty dict is outside the values the model stringifies
PyRepr(v) ==
    CASE v.t = "null" -> <<"N", "o", "n", "e">>
      [] v.t = "bool" -> IF v.v THEN <<"T", "r", "u", "e">>
                         ELSE <<"F", "a", "l", "s", "e">>
      [] v.t = "int" -> IntStr(v.v)
      [] v.t = "float" -> FloatStr(v.v)
      [] v.t = "str" -> <<"'">> \o v.v \o <<"'">>
      [] v.t = "list" -> <<"[">> \o JoinRepr(v.v, 1) \o <<"]">>
      [] v.t = "dict" /\ Len(v.v) = 0 -> <<"{", "}">>

JoinRepr(xs, i) ==
    IF i > Len(xs) THEN <<>>
    ELSE PyRepr(xs[i]) \o
         (IF i < Len(xs) THEN <<",", " ">> ELSE <<>>) \o JoinRepr(xs, i + 1)

\* str(v)
ToStr(v) == IF v.t = "str" THEN v.v ELSE PyRepr(v)

\* type(v).__name__
TypeName(v) ==
    CASE v.t = "null" -> <<"N", "o", "n", "e", "T", "y", "p", "e">>
      [] v.t = "bool" -> <<"b", "o", "o", "l">>
      [] v.t = "int" -> <<"i", "n", "t">>
      [] v.t = "float" -> <<"f", "l", "o", "a", "t">>
      [] v.t = "str" -> <<"s", "t", "r">>
      [] v.t = "list" -> <<"l", "i", "s", "t">>
      [] v.t = "dict" -> <<"d", "i", "c", "t">>

\* outcomes of a call: a value, or an exception with its type and str(e)
Ok(x) == [kind |-> "ok", val |-> x]

Raise(type, msg) == [kind |-> "raise", exc |-> type, msg |-> msg]

\* then(r, F): F on r's value, or r's exception propagated
Then(r, F(_)) == IF r.kind = "ok" THEN F(r.val) ELSE r

AllDigits(s) == \A i \in 1..Len(s) : IsDigit(s[i])

RECURSIVE DigitsVal(_)
DigitsVal(s) ==
    IF Len(s) = 0 THEN 0
    ELSE 10 * DigitsVal(SubSeq(s, 1, Len(s) - 1)) + DigitVal(s[Len(s)])

\* the position of the first "." of s, or 0
DotAt(s) ==
    IF \E i \in 1..Len(s) : s[i] = "."
    THEN CHOOSE i \in 1..Len(s) : s[i] = "." /\ \A j \in 1..(i - 1) : s[j] # "."
    ELSE 0

\* s is digits, or digits "." digits with a digit on one side at least
IsDecimal(s) ==
    LET d == DotAt(s)
    IN  IF d = 0 THEN Len(s) > 0 /\ AllDigits(s)
        ELSE /\ AllDigits(SubSeq(s, 1, d - 1))
             /\ AllDigits(SubSeq(s, d + 1, Len(s)))
             /\ Len(s) > 1

\* the value of a decimal numeral, in hundredths (two decimals are kept)
DecimalVal(s) ==
    LET d == DotAt(s)
        whole == IF d = 0 THEN s ELSE SubSeq(s, 1, d - 1)
        frac == IF d = 0 THEN <<>> ELSE SubSeq(s, d + 1, Len(s))
        f2 == SubSeq(frac \o <<"0", "0">>, 1, 2)
    IN  100 * DigitsVal(whole) + DigitsVal(f2)

\* a numeral's sign, and the numeral without it.  (Surrounding blanks,
\* exponents, "inf" and "nan" are outside the strings the model parses.)
HasSign(s) == Len(s) > 0 /\ s[1] \in {"+", "-"}

Sign(s) == IF Len(s) > 0 /\ s[1] = "-" THEN -1 ELSE 1

Unsigned(s) == IF HasSign(s) THEN Tail(s) ELSE s

S_float_value_error ==
    <<"c","o","u","l","d"," ","n","o","t"," ","c","o","n","v","e","r",
      "t"," ","s","t","r","i","n","g"," ","t","o"," ","f","l","o","a",
      "t",":"," ">>

S_float_type_error ==
    <<"f","l","o","a","t","(",")"," ","a","r","g","u","m","e","n","t",
      " ","m","u","s","t"," ","b","e"," ","a"," ","s","t","r","i","n",
      "g"," ","o","r"," ","a"," ","r","e","a","l"," ","n","u","m","b",
      "e","r",","," ","n","o","t"," ","'">>

S_int_value_error ==
    <<"i","n","v","a","l","i","d"," ","l","i","t","e","r","a","l"," ",
      "f","o","r"," ","i","n","t","(",")"," ","w","i","t","h"," ","b",
      "a","s","e"," ","1","0",":"," ">>

S_int_type_error ==
    <<"i","n","t","(",")"," ","a","r","g","u","m","e","n","t"," ","m",
      "u","s","t"," ","b","e"," ","a"," ","s","t","r","i","n","g",","," ",
      "a"," ","b","y","t","e","s","-","l","i","k","e"," ","o","b","j",
      "e","c","t"," ","o","r"," ","a"," ","r","e","a","l"," ","n","u",
      "m","b","e","r",","," ","n","o","t"," ","'">>

\* float(v): numbers convert, a str is parsed, anything else is a TypeError
ToFloat(v) ==
    CASE v.t = "float" -> Ok(v)
      [] v.t = "int" -> Ok(PyFloat(100 * v.v))
      [] v.t = "bool" -> Ok(PyFloat(IF v.v THEN 100 ELSE 0))
      [] v.t = "str" ->
            IF IsDecimal(Unsigned(v.v))
            THEN Ok(PyFloat(Sign(v.v) * DecimalVal(Unsigned(v.v))))
            ELSE Raise("ValueError", S_float_value_error \o PyRepr(v))
      [] OTHER ->
            Raise("TypeError", S_float_type_error \o TypeName(v) \o <<"'">>)

\* int(v): a float is truncated, a str must be all digits
ToInt(v) ==
    CASE v.t = "int" -> Ok(v)
      [] v.t = "float" -> Ok(PyInt(IF v.v < 0 THEN -((-v.v) \div 100)
                                   ELSE v.v \div 100))
      [] v.t = "bool" -> Ok(PyInt(IF v.v THEN 1 ELSE 0))
      [] v.t = "str" ->
            IF Len(Unsigned(v.v)) > 0 /\ AllDigits(Unsigned(v.v))
            THEN Ok(PyInt(Sign(v.v) * DigitsVal(Unsigned(v.v))))
            ELSE Raise("ValueError", S_int_value_error \o PyRepr(v))
      [] OTHER ->
            Raise("TypeError", S_int_type_error \o TypeName(v) \o <<"'">>)

S_no_attribute ==
    <<"'"," ","o","b","j","e","c","t"," ","h","a","s"," ","n","o"," ",
      "a","t","t","r","i","b","u","t","e"," ","'">>

\* v.attr(...) for a v that has no such method
NoAttribute(v, attr) ==
    Raise("AttributeError",
          <<"'">> \o TypeName(v) \o S_no_attribute \o attr \o <<"'">>)

\* needle in hay, for strings
Contains(hay, needle) ==
    \E i \in 0..(Len(hay) - Len(needle)) :
        \A j \in 1..Len(needle) : hay[i + j] = needle[j]

StartsWith(s, p) ==
    Len(s) >= Len(p) /\ \A j \in 1..Len(p) : s[j] = p[j]

(***************************************************************************)
(* parse_land_size                                                         *)
(***************************************************************************)
UpperCase ==
    <<"A","B","C","D","E","F","G","H","I","J","K","L","M","N","O","P",
      "Q","R","S","T","U","V","W","X","Y","Z">>

LowerCase ==
    <<"a","b","c","d","e","f","g","h","i","j","k","l","m","n","o","p",
      "q","r","s","t","u","v","w","x","y","z">>

IsUpper(c) == \E i \in 1..26 : UpperCase[i] = c

IsLower(c) == \E i \in 1..26 : LowerCase[i] = c

LowerChar(c) ==
    IF IsUpper(c) THEN LowerCase[CHOOSE i \in 1..26 : UpperCase[i] = c] ELSE c

UpperChar(c) ==
    IF IsLower(c) THEN UpperCase[CHOOSE i \in 1..26 : LowerCase[i] = c] ELSE c

\* s.lower()
Lower(s) == [i \in 1..Len(s) |-> LowerChar(s[i])]

\* s.replace(a, b) for one-character a and b ("" when b is <<>>)
RECURSIVE Replace(_, _, _)
Replace(s, a, b) ==
    IF Len(s) = 0 THEN <<>>
    ELSE (IF s[1] = a THEN b ELSE <<s[1]>>) \o Replace(Tail(s), a, b)

IsNumChar(c) == IsDigit(c) \/ c = "."

\* re.search(r'([\d.]+)', s): the first maximal run of digits and dots, or <<>>
FirstNumber(s) ==
    IF \E i \in 1..Len(s) : IsNumChar(s[i])
    THEN LET a == CHOOSE i \in 1..Len(s) :
                    IsNumChar(s[i]) /\ \A j \in 1..(i - 1) : ~IsNumChar(s[j])
             b == CHOOSE k \in a..Len(s) :
                    /\ \A j \in a..k : IsNumChar(s[j])
                    /\ (k = Len(s) \/ ~IsNumChar(s[k + 1]))
         IN  SubSeq(s, a, b)
    ELSE <<>>

SqmPerHectare == 10000

\* 4046.86, in hundredths
SqmPerAcreHundredths == 404686

S_lower == <<"l","o","w","e","r">>

\* parse_land_size(size_str): square metres as a float, None, or an exception
parse_land_size(size_str) ==
    IF ~Truthy(size_str) THEN Ok(PyNone)
    ELSE IF size_str.t # "str" THEN NoAttribute(size_str, S_lower)
    ELSE
        LET s == Replace(Lower(size_str.v), ",", <<>>)
            num == FirstNumber(s)
        IN  IF Len(num) = 0 THEN Ok(PyNone)
            ELSE Then(ToFloat(PyStr(num)), LAMBDA value :
                    IF \/ Contains(s, <<"h","e","c","t","a","r","e">>)
                       \/ Contains(s, <<"h","a">>)
                    THEN Ok(PyFloat(value.v * SqmPerHectare))
                    ELSE IF Contains(s, <<"a","c","r","e">>)
                    THEN Ok(PyFloat((value.v * SqmPerAcreHundredths) \div 100))
                    ELSE Ok(value))

(***************************************************************************)
(* parse_json_listing                                                      *)
(***************************************************************************)
S_rea == <<"r","e","a">>

S_NSW == <<"N","S","W">>

S_rural == <<"r","u","r","a","l">>

S_photo == <<"p","h","o","t","o">>

S_image == <<"i","m","a","g","e">>

S_base ==
    <<"h","t","t","p","s",":","/","/","w","w","w",".","r","e","a","l",
      "e","s","t","a","t","e",".","c","o","m",".","a","u">>

S_startswith == <<"s","t","a","r","t","s","w","i","t","h">>

S_get == <<"g","e","t">>

\* listing_id = data.get('id') or data.get('listingId')
ListingId(data) == PyOr(Get(data, "id", PyNone), Get(data, "listingId", PyNone))

\* a variant of IdMissing that tests the id against None only
IdMissingOnlyNone(data) == ListingId(data).t = "null"

\* if not listing_id
IdMissing(data) == ~Truthy(ListingId(data))

\* the state the address block stores: addr.get('state', 'NSW')
AddrState(addr) == Get(addr, "state", PyStr(S_NSW))

\* data['_links']['canonical']['href'], or "miss" where the code catches
\* KeyError / TypeError
CanonicalHref(data) ==
    LET links == Item(data, "_links")
    IN  IF IsDict(links) /\ Has(links, "canonical")
           /\ IsDict(Item(links, "canonical"))
           /\ Has(Item(links, "canonical"), "href")
        THEN [hit |-> TRUE, v |-> Item(Item(links, "canonical"), "href")]
        ELSE [hit |-> FALSE]

\* "Extract URL"
ParseUrl(data, listing) ==
    IF Has(data, "prettyUrl")
    THEN LET url == Item(data, "prettyUrl")
         IN  IF url.t # "str" THEN NoAttribute(url, S_startswith)
             ELSE Ok(Put(listing, "url",
                         IF StartsWith(url.v, <<"/">>)
                         THEN PyStr(S_base \o url.v) ELSE url))
    ELSE IF Has(data, "_links")
    THEN LET h == CanonicalHref(data)
         IN  Ok(IF h.hit THEN Put(listing, "url", h.v) ELSE listing)
    ELSE Ok(listing)

\* "Coordinates": one of latitude / longitude
ParseCoord(location, key, listing) ==
    IF Has(location, key)
    THEN Then(ToFloat(Item(location, key)), LAMBDA f : Ok(Put(listing, key, f)))
    ELSE Ok(listing)

\* "Extract address"
ParseAddress(data, listing) ==
    LET addr == Get(data, "address", EmptyDict)
    IN  IF ~IsDict(addr) THEN Ok(listing)
        ELSE
          LET display == Get(addr, "display", EmptyDict)
              l1 == IF IsDict(display)
                    THEN Put(listing, "address",
                             PyOr(Get(display, "shortAddress", PyNone),
                                  Get(display, "fullAddress", PyNone)))
                    ELSE listing
              l2 == Put(l1, "suburb", Get(addr, "suburb", PyNone))
              l3 == Put(l2, "postcode", Get(addr, "postcode", PyNone))
              l4 == Put(l3, "state", AddrState(addr))
              location == Get(addr, "location", EmptyDict)
          IN  IF ~IsDict(location) THEN Ok(l4)
              ELSE Then(ParseCoord(location, "latitude", l4), LAMBDA l5 :
                        ParseCoord(location, "longitude", l5))

\* "Extract price"
ParsePrice(data, listing) ==
    LET price == Get(data, "price", EmptyDict)
    IN  IF IsDict(price)
        THEN Ok(Put(listing, "price_text", Get(price, "display", PyNone)))
        ELSE Ok(listing)

\* one of bedrooms / bathrooms
ParseFeature(features, key, listing) ==
    LET f == Get(features, key, EmptyDict)
    IN  IF IsDict(f) /\ Has(f, "value")
        THEN Then(ToInt(Item(f, "value")), LAMBDA n : Ok(Put(listing, key, n)))
        ELSE Ok(listing)

\* "Extract features"
ParseFeatures(data, listing) ==
    LET features == Get(data, "generalFeatures", EmptyDict)
    IN  IF ~IsDict(features) THEN Ok(listing)
        ELSE Then(ParseFeature(features, "bedrooms", listing), LAMBDA l1 :
                  ParseFeature(features, "bathrooms", l1))

\* "Extract land size"
ParseLand(data, listing) ==
    LET sizes == Get(data, "propertySizes", EmptyDict)
    IN  IF ~IsDict(sizes) THEN Ok(listing)
        ELSE LET land == Get(sizes, "land", EmptyDict)
             IN  IF ~IsDict(land) THEN Ok(listing)
                 ELSE Then(parse_land_size(Get(land, "displayValue", PyStr(<<>>))),
                           LAMBDA sz : Ok(Put(listing, "land_size_sqm", sz)))

\* "Extract property type"
ParseType(data, listing) ==
    Put(listing, "property_type", Get(data, "propertyType", PyStr(S_rural)))

\* the images of media[i..]
RECURSIVE Images(_, _)
Images(media, i) ==
    IF i > Len(media) THEN <<>>
    ELSE LET item == media[i]
             ty == IF IsDict(item) THEN Get(item, "type", PyNone) ELSE PyNone
             url == IF IsDict(item)
                    THEN PyOr(Get(item, "url", PyNone), Get(item, "imageUrl", PyNone))
                    ELSE PyNone
             take == /\ IsDict(item)
                     /\ ty \in {PyStr(S_photo), PyStr(S_image), PyNone}
                     /\ Truthy(url)
         IN  (IF take THEN <<url>> ELSE <<>>) \o Images(media, i + 1)

\* "Extract images"
ParseImages(data, listing) ==
    LET media == Get(data, "media", PyList(<<>>))
    IN  IF IsList(media) /\ Len(Images(media.v, 1)) > 0
        THEN Put(listing, "images", PyList(Images(media.v, 1)))
        ELSE listing

\* parse_json_listing(data): Ok(listing dict), Ok(None), or an exception
parse_json_listing(data) ==
    IF ~IsDict(data) THEN NoAttribute(data, S_get)
    ELSE IF IdMissing(data) THEN Ok(PyNone)
    ELSE
      LET l0 == PyDict(<< <<"external_id", PyStr(ToStr(ListingId(data)))>>,
                          <<"source", PyStr(S_rea)>> >>)
      IN  Then(ParseUrl(data, l0), LAMBDA l1 :
          Then(ParseAddress(data, l1), LAMBDA l2 :
          Then(ParsePrice(data, l2), LAMBDA l3 :
          Then(ParseFeatures(data, l3), LAMBDA l4 :
          Then(ParseLand(data, l4), LAMBDA l5 :
               Ok(ParseImages(data, ParseType(data, l5))))))))

(***************************************************************************)
(* find_listings_recursive, extract_listings_from_json                     *)
(***************************************************************************)
\* the depth past which find_listings_recursive returns []
DepthLimit == 10

SkipKeys == {"tracking", "analytics", "meta"}

\* 'id' in data and ('prettyUrl' in data or '_links' in data)
LooksLikeListing(data) ==
    Has(data, "id") /\ (Has(data, "prettyUrl") \/ Has(data, "_links"))

\* the depth test that opens find_listings_recursive
TooDeep(depth) == depth > DepthLimit

RECURSIVE find_listings_recursive(_, _)
RECURSIVE RecurseItems(_, _, _)
RECURSIVE RecurseList(_, _, _)
RECURSIVE MatchOrRecurse(_, _, _)
\* find_listings_recursive(data, depth): Ok(<<listing, ...>>) or an exception
find_listings_recursive(data, depth) ==
    IF TooDeep(depth) THEN Ok(<<>>)
    ELSE IF IsDict(data)
    THEN MatchOrRecurse(IF LooksLikeListing(data) THEN parse_json_listing(data)
                        ELSE Ok(PyNone),
                        data, depth)
    ELSE IF IsList(data) THEN RecurseList(data.v, 1, depth)
    ELSE Ok(<<>>)

\* p is what parse_json_listing gave for a listing-shaped dict (None for any
\* other): a record ends the branch, None sends the search into the values
MatchOrRecurse(p, data, depth) ==
    IF p.kind = "raise" THEN p
    ELSE IF Truthy(p.val) THEN Ok(<<p.val>>)
    ELSE RecurseItems(data.v, 1, depth)

\* for key, val in data.items(): skip the metadata keys, recurse into the rest
RecurseItems(kv, i, depth) ==
    IF i > Len(kv) THEN Ok(<<>>)
    ELSE IF kv[i][1] \in SkipKeys THEN RecurseItems(kv, i + 1, depth)
    ELSE Then(find_listings_recursive(kv[i][2], depth + 1), LAMBDA found :
         Then(RecurseItems(kv, i + 1, depth), LAMBDA rest : Ok(found \o rest)))

\* for item in data
RecurseList(xs, i, depth) ==
    IF i > Len(xs) THEN Ok(<<>>)
    ELSE Then(find_listings_recursive(xs[i], depth + 1), LAMBDA found :
         Then(RecurseList(xs, i + 1, depth), LAMBDA rest : Ok(found \o rest)))

\* what a for loop iterates: the items of a list, the characters of a str,
\* the keys of a dict; None and numbers are not iterable (TypeError).  A key
\* is an atom: as an item it is a str holding the atom, of which the callers
\* use the type only.
Iterable(v) == v.t \in {"list", "str", "dict"}

IterItems(v) ==
    CASE v.t = "list" -> v.v
      [] v.t = "str" -> [i \in 1..Len(v.v) |-> PyStr(<<v.v[i]>>)]
      [] v.t = "dict" -> [i \in 1..Len(v.v) |-> PyStr(<<v.v[i][1]>>)]

\* the fixed path's loops: [kind, val] with kind "ok" (ran to the end),
\* "caught" (a TypeError ended the try block; val is what was appended so
\* far) or "raise" (any other exception leaves extract_listings_from_json)
Caught(listings) == [kind |-> "caught", val |-> listings]

StopOrRaise(r, acc) ==
    IF r.exc \in {"KeyError", "TypeError"} THEN Caught(acc) ELSE r

RECURSIVE ResultsLoop(_, _, _)
RECURSIVE ResultsStep(_, _, _, _)
\* for r in results
ResultsLoop(rs, j, acc) ==
    IF j > Len(rs) THEN Ok(acc)
    ELSE ResultsStep(parse_json_listing(rs[j]), rs, j, acc)

\* listing = parse_json_listing(r); if listing: listings.append(listing)
ResultsStep(p, rs, j, acc) ==
    IF p.kind = "raise" THEN StopOrRaise(p, acc)
    ELSE ResultsLoop(rs, j + 1, IF Truthy(p.val) THEN Append(acc, p.val) ELSE acc)

RECURSIVE TiersLoop(_, _, _)
RECURSIVE TiersStep(_, _, _)
\* for tier in tiered
TiersLoop(tiers, i, acc) ==
    IF i > Len(tiers) THEN Ok(acc)
    ELSE IF ~IsDict(tiers[i]) THEN NoAttribute(tiers[i], S_get)
    ELSE IF ~Iterable(Get(tiers[i], "results", PyList(<<>>))) THEN Caught(acc)
    ELSE TiersStep(ResultsLoop(IterItems(Get(tiers[i], "results", PyList(<<>>))),
                               1, acc),
                   tiers, i)

\* r is what the loop over one tier's results gave
TiersStep(r, tiers, i) ==
    IF r.kind = "ok" THEN TiersLoop(tiers, i + 1, r.val) ELSE r

\* "Try rpiResults.tieredResults[].results[]"
FixedPath(data) ==
    IF ~IsDict(data) THEN NoAttribute(data, S_get)
    ELSE LET rpi == Get(data, "rpiResults", EmptyDict)
         IN  IF ~IsDict(rpi) THEN NoAttribute(rpi, S_get)
             ELSE LET tiered == Get(rpi, "tieredResults", PyList(<<>>))
                  IN  IF ~Iterable(tiered) THEN Caught(<<>>)
                      ELSE TiersLoop(IterItems(tiered), 1, <<>>)

\* "Try recursive search if no results"
OrRecursive(fixed, data) ==
    IF fixed.kind = "raise" THEN fixed
    ELSE IF Len(fixed.val) = 0 THEN find_listings_recursive(data, 0)
    ELSE Ok(fixed.val)

\* extract_listings_from_json(data): Ok(<<listing, ...>>) or an exception
extract_listings_from_json(data) == OrRecursive(FixedPath(data), data)

(***************************************************************************)
(* extract_listings_from_html                                              *)
(***************************************************************************)
\* the fewest digits of a listing id at the end of a link
MinIdDigits == 6

PostcodeDigits == 4

\* s without one trailing newline: where the pattern's $ may match
BeforeFinalNewline(s) ==
    IF Len(s) > 0 /\ s[Len(s)] = "\n" THEN SubSeq(s, 1, Len(s) - 1) ELSE s

\* re.search(r'-(\d{6,})$', href): the id matched, or <<>> for no match
TrailingId(href) ==
    LET s == BeforeFinalNewline(href)
        ok(i) == /\ s[i] = "-"
                 /\ Len(s) - i >= MinIdDigits
                 /\ AllDigits(SubSeq(s, i + 1, Len(s)))
    IN  IF \E i \in 1..Len(s) : ok(i)
        THEN SubSeq(s, (CHOOSE i \in 1..Len(s) : ok(i)) + 1, Len(s))
        ELSE <<>>

\* s.split(sep), as a sequence of strings
RECURSIVE Split(_, _)
Split(s, sep) ==
    IF \E i \in 1..Len(s) : s[i] = sep
    THEN LET k == CHOOSE i \in 1..Len(s) :
                    s[i] = sep /\ \A j \in 1..(i - 1) : s[j] # sep
         IN  <<SubSeq(s, 1, k - 1)>> \o Split(SubSeq(s, k + 1, Len(s)), sep)
    ELSE <<s>>

\* s.title(): a letter after a non-letter is upper case, any other lower
Title(s) ==
    [i \in 1..Len(s) |->
        IF i = 1 \/ ~(IsUpper(s[i - 1]) \/ IsLower(s[i - 1]))
        THEN UpperChar(s[i]) ELSE LowerChar(s[i])]

\* re.match(r'^\d{4}$', part)
IsPostcode(part) ==
    LET s == BeforeFinalNewline(part)
    IN  Len(s) = PostcodeDigits /\ AllDigits(s)

\* "Try to extract more info from URL"
UrlInfo(href, listing) ==
    LET segs == Split(href, "/")
        parts == Split(segs[Len(segs)], "-")
        cand == {i \in 1..(Len(parts) - 1) : IsPostcode(parts[i])}
    IN  IF Len(parts) >= 4 /\ cand # {}
        THEN LET i == CHOOSE c \in cand : \A d \in cand : c <= d
                 l1 == Put(listing, "postcode", PyStr(parts[i]))
             IN  IF i > 1
                 THEN Put(l1, "suburb",
                          PyStr(Title(Replace(parts[i - 1], "+", <<" ">>))))
                 ELSE l1
        ELSE listing

\* the record built for one link
LinkListing(href, listing_id) ==
    UrlInfo(href.v,
            PyDict(<< <<"external_id", PyStr(listing_id)>>,
                      <<"source", PyStr(S_rea)>>,
                      <<"url", href>>,
                      <<"state", PyStr(S_NSW)>> >>))

\* the loop over links[i..]: an exception ends it, what was collected stays
RECURSIVE LinksLoop(_, _, _, _)
LinksLoop(links, i, seen, acc) ==
    IF i > Len(links) THEN acc
    ELSE LET got == links[i]
         IN  IF got.kind = "raise" THEN acc
             ELSE IF ~Truthy(got.val) THEN LinksLoop(links, i + 1, seen, acc)
             ELSE LET listing_id == TrailingId(got.val.v)
                  IN  IF Len(listing_id) = 0 \/ listing_id \in seen
                      THEN LinksLoop(links, i + 1, seen, acc)
                      ELSE LinksLoop(links, i + 1, seen \cup {listing_id},
                                     Append(acc, LinkListing(got.val, listing_id)))

\* extract_listings_from_html(driver): dom is what find_elements gives, an
\* exception or the links, each link what get_attribute('href') gives
extract_listings_from_html(dom) ==
    IF dom.kind = "raise" THEN <<>> ELSE LinksLoop(dom.val, 1, {}, <<>>)

(***************************************************************************)
(* Inputs of the extraction functions                                      *)
(***************************************************************************)
Str_p == PyStr(<<"/", "p">>)

Str_abs == PyStr(<<"h", ":", "/", "/", "x">>)

Str_Kasada == PyStr(<<"K", "a", "s", "a", "d", "a">>)

\* the id / listingId fields of a raw listing
IdFields ==
    { <<>>,
      << <<"id", PyNone>> >>,
      << <<"id", PyInt(0)>> >>,
      << <<"id", PyStr(<<>>)>> >>,
      << <<"id", PyList(<<>>)>> >>,
      << <<"id", PyBool(FALSE)>> >>,
      << <<"id", PyInt(7)>> >>,
      << <<"id", PyStr(<<"a", "1">>)>> >>,
      << <<"id", PyFloat(150)>> >>,
      << <<"id", PyBool(TRUE)>> >>,
      << <<"id", PyList(<<PyInt(1), PyStr(<<"a">>)>>)>> >>,
      << <<"listingId", PyInt(5)>> >>,
      << <<"listingId", PyStr(<<>>)>> >>,
      << <<"id", PyInt(0)>>, <<"listingId", PyStr(<<"x", "9">>)>> >>,
      << <<"id", PyNone>>, <<"listingId", PyNone>> >> }

\* values of every type, for a sub-field that should be something else
AnyTyped ==
    { PyNone, PyBool(TRUE), PyInt(3), PyFloat(250), PyStr(<<>>), Str_p,
      Str_abs, Str_Kasada, PyStr(<<"3">>), PyStr(<<"-", "3", ".", "5">>),
      PyList(<<>>), PyList(<<PyInt(1)>>), EmptyDict }

LandTexts ==
    { PyStr(<<"2", ".", "5", " ", "h", "a">>),
      PyStr(<<"1", "0", " ", "A", "c", "r", "e", "s">>),
      PyStr(<<"1", ",", "2", "0", "0", " ", "m", "2">>),
      PyStr(<<"7", "5", "0">>),
      PyStr(<<"a", "p", "p", "r", "o", "x", ".", " ", "5", " ", "h", "a">>),
      PyStr(<<"l", "a", "r", "g", "e">>) }

One(k, x) == << <<k, x>> >>

\* the other fields of a raw listing: none, or one sub-structure
OtherFields ==
    { <<>> }
    \cup { One("prettyUrl", x) : x \in AnyTyped }
    \cup { One("_links", x) : x \in AnyTyped }
    \cup { One("_links", PyDict(One("canonical", x))) : x \in AnyTyped }
    \cup { One("_links", PyDict(One("canonical", PyDict(One("href", x))))) :
             x \in {Str_abs, PyNone} }
    \cup { One("prettyUrl", Str_p) \o One("_links", PyNone) }
    \cup { One("address", x) : x \in AnyTyped }
    \cup { One("address", PyDict(One("state", x))) : x \in AnyTyped }
    \cup { One("address", PyDict(One("display", x))) : x \in AnyTyped }
    \cup { One("address", PyDict(One("display", PyDict(One(k, Str_abs))))) :
             k \in {"shortAddress", "fullAddress"} }
    \cup { One("address", PyDict(One("suburb", Str_abs) \o One("postcode", PyInt(3)))) }
    \cup { One("address", PyDict(One("location", x))) : x \in AnyTyped }
    \cup { One("address", PyDict(One("location", PyDict(One(k, x))))) :
             k \in {"latitude", "longitude"}, x \in AnyTyped }
    \cup { One("price", x) : x \in AnyTyped }
    \cup { One("price", PyDict(One("display", x))) : x \in {Str_abs, PyInt(3)} }
    \cup { One("generalFeatures", x) : x \in AnyTyped }
    \cup { One("generalFeatures", PyDict(One(k, x))) :
             k \in {"bedrooms", "bathrooms"}, x \in AnyTyped }
    \cup { One("generalFeatures", PyDict(One(k, PyDict(One("value", x))))) :
             k \in {"bedrooms", "bathrooms"}, x \in AnyTyped }
    \cup { One("propertySizes", x) : x \in AnyTyped }
    \cup { One("propertySizes", PyDict(One("land", x))) : x \in AnyTyped }
    \cup { One("propertySizes", PyDict(One("land", PyDict(One("displayValue", x))))) :
             x \in AnyTyped \cup LandTexts }
    \cup { One("propertyType", x) : x \in {Str_abs, PyNone} }
    \cup { One("media", x) : x \in AnyTyped }
    \cup { One("media", PyList(<<x, PyDict(One("url", Str_abs))>>)) : x \in AnyTyped }
    \cup { One("media", PyList(<<PyDict(One("type", x) \o One("imageUrl", Str_p))>>)) :
             x \in AnyTyped \cup {PyStr(S_photo), PyStr(S_image)} }

\* the raw listing objects parse_json_listing is applied to
RawListings == { PyDict(i \o o) : i \in IdFields, o \in OtherFields }

\* candidate listing objects of a payload
Listing101 == PyDict(One("id", PyInt(101)) \o One("prettyUrl", Str_p))

Listing102 ==
    PyDict(One("id", PyStr(<<"1", "0", "2">>))
           \o One("_links", PyDict(One("canonical", PyDict(One("href", Str_abs))))))

ListingNoId == PyDict(One("prettyUrl", Str_p))

ListingNullUrl == PyDict(One("id", PyInt(103)) \o One("prettyUrl", PyNone))

ListingNullLat ==
    PyDict(One("id", PyInt(104))
           \o One("address", PyDict(One("location", PyDict(One("latitude", PyNone))))))

ListingKasadaLat ==
    PyDict(One("id", PyInt(105)) \o One("prettyUrl", Str_p)
           \o One("address", PyDict(One("location", PyDict(One("latitude", Str_Kasada))))))

Candidates ==
    { Listing101, Listing102, ListingNoId, ListingNullUrl, ListingNullLat,
      ListingKasadaLat, Str_p }

\* the longest results list of a payload
MaxResults == 2

ResultLists ==
    UNION { [1..n -> Candidates] : n \in 0..MaxResults }

\* {"rpiResults": {"tieredResults": [{"results": rs}, ...]}}
Tier(rs) == PyDict(One("results", rs))

Tiered(tiers) == PyDict(One("rpiResults", PyDict(One("tieredResults", tiers))))

\* the payloads extract_listings_from_json is applied to
Payloads ==
    { Tiered(PyList(<<Tier(PyList(rs))>>)) : rs \in ResultLists }
    \cup { Tiered(PyList(<<Tier(PyList(<<a>>)), Tier(PyList(<<b>>))>>)) :
             a \in Candidates, b \in Candidates }
    \cup { Tiered(PyList(<<Tier(x), Tier(PyList(<<Listing101>>))>>)) : x \in AnyTyped }
    \cup { Tiered(PyList(<<x, Tier(PyList(<<Listing101>>))>>)) : x \in AnyTyped }
    \cup { Tiered(x) : x \in AnyTyped }
    \cup { PyDict(One("rpiResults", x) \o One("page", Listing101)) : x \in AnyTyped }
    \cup { PyDict(One("tracking", Listing101) \o One("props", PyList(<<a, b>>))) :
             a \in Candidates, b \in Candidates }
    \cup { EmptyDict }

\* what get_attribute('href') gives for a link
Href(s) == Ok(PyStr(s))

LinkResults ==
    { Ok(PyNone), Ok(PyStr(<<>>)), Raise("StaleElementReferenceException", <<"s">>),
      Href(<<"/","p","-","1","2","3","4","5","6">>),
      Href(<<"/","q","-","1","2","3","4","5","6">>),
      Href(<<"/","p","-","1","2","3","4","5">>),
      Href(<<"/","p","-","a","-","1","2","3","4","5","6","7">>),
      Href(<<"/","p","-","1","2","3","4","5","6","/">>),
      Href(<<"/","p","1","2","3","4","5","6","7">>),
      Href(<<"h",":","/","/","x","/","p","-","n","s","w","-","w","a","+","w","a",
             "-","2","6","5","0","-","7","6","5","4","3","2","1">>),
      Href(<<"/","2","6","5","0","-","a","-","b","-","7","7","7","7","7","7","7">>) }

\* the most links of a page
MaxLinks == 2

\* what find_elements gives: an exception, or the links
Doms ==
    { Raise("WebDriverException", <<"d">>) }
    \cup { Ok(ls) : ls \in UNION { [1..n -> LinkResults] : n \in 0..MaxLinks } }

Pending == [kind |-> "pending"]

idleRun ==
    /\ mode = "idle"
    /\ max_pages = 0
    /\ pc = "idle"
    /\ driver = "none"
    /\ quit_calls = 0
    /\ page_num = 0
    /\ results = <<>>
    /\ seen_ids = {}
    /\ page_result = <<>>
    /\ page_source = <<>>
    /\ requested = <<>>
    /\ merged = <<>>
    /\ trace = <<>>

(***************************************************************************)
(* The extraction functions, each applied once to an input                 *)
(***************************************************************************)
InitExtract ==
    /\ \/ call = "parse_json_listing" /\ arg \in RawListings
       \/ call = "extract_listings_from_json" /\ arg \in Payloads
       \/ call = "extract_listings_from_html" /\ arg \in Doms
    /\ ret = Pending
    /\ nest = 0
    /\ idleRun

CallParse ==
    /\ call = "parse_json_listing" /\ ret = Pending
    /\ ret' = parse_json_listing(arg)
    /\ UNCHANGED <<call, arg, nest>>
    /\ UNCHANGED runVars

CallExtractJson ==
    /\ call = "extract_listings_from_json" /\ ret = Pending
    /\ ret' = extract_listings_from_json(arg)
    /\ UNCHANGED <<call, arg, nest>>
    /\ UNCHANGED runVars

CallExtractHtml ==
    /\ call = "extract_listings_from_html" /\ ret = Pending
    /\ ret' = Ok(extract_listings_from_html(arg))
    /\ UNCHANGED <<call, arg, nest>>
    /\ UNCHANGED runVars

NextExtract == CallParse \/ CallExtractJson \/ CallExtractHtml

SpecExtract == InitExtract /\ [][NextExtract]_vars

(***************************************************************************)
(* find_listings_recursive on nested payloads: an innermost object, wrapped *)
(* one container at a time, then searched                                   *)
(***************************************************************************)
\* the innermost objects
ListingNullId == PyDict(One("id", PyNone) \o One("prettyUrl", Str_p))

ListingBadLinks == PyDict(One("id", PyInt(7)) \o One("_links", Str_p))

Innermost ==
    { Listing101, ListingNullUrl, ListingKasadaLat, ListingBadLinks,
      ListingNullId, ListingNoId }

\* the deepest nesting built
MaxNest == 12

\* a listing-shaped container with an id of its own: a confirmed listing
InListing(x) ==
    PyDict(One("id", PyInt(9)) \o One("prettyUrl", Str_abs) \o One("child", x))

\* a listing-shaped container whose id is null: the search walks through it
InNullListing(x) ==
    PyDict(One("id", PyNone) \o One("_links", PyNone) \o One("child", x))

\* the containers: plain ones, and the ones the search treats specially
WrapIn(kind, x) ==
    CASE kind = "data" -> PyDict(One("page", PyInt(1)) \o One("data", x))
      [] kind = "list" -> PyList(<<x>>)
      [] kind = "tracking" -> PyDict(One("tracking", x))
      [] kind = "meta" -> PyDict(One("meta", x) \o One("data", PyList(<<>>)))
      [] kind = "listing" -> InListing(x)
      [] kind = "nulllisting" -> InNullListing(x)

PlainKinds == {"data", "list"}

SpecialKinds == {"tracking", "meta", "listing", "nulllisting"}

\* the container a wrapper holds its content in, for walking back down
IsWrapper(v) ==
    \/ IsList(v) /\ Len(v.v) = 1
    \/ IsDict(v) /\ \E k \in {"data", "tracking", "meta", "child"} : Has(v, k)

Content(v) ==
    IF IsList(v) THEN v.v[1]
    ELSE Item(v, CHOOSE k \in {"tracking", "meta", "child", "data"} :
                     Has(v, k) /\ (k = "data" => ~Has(v, "meta")))

RECURSIVE InnermostOf(_)
InnermostOf(v) == IF IsWrapper(v) THEN InnermostOf(Content(v)) ELSE v

\* some container of v is of a special kind
RECURSIVE HasSpecial(_)
HasSpecial(v) ==
    /\ IsWrapper(v)
    /\ \/ IsDict(v) /\ \E k \in {"tracking", "meta", "child"} : Has(v, k)
       \/ HasSpecial(Content(v))

InitSearch ==
    /\ call = "find_listings_recursive"
    /\ arg \in Innermost
    /\ ret = Pending
    /\ nest = 0
    /\ idleRun

\* one more container around the payload; a list holds objects, and one
\* container of a payload at most is of a special kind
Wrap(kind) ==
    /\ call = "find_listings_recursive" /\ ret = Pending
    /\ nest < MaxNest
    /\ kind = "list" => ~IsList(arg)
    /\ kind \in SpecialKinds => ~HasSpecial(arg)
    /\ arg' = WrapIn(kind, arg)
    /\ nest' = nest + 1
    /\ UNCHANGED <<call, ret>>
    /\ UNCHANGED runVars

CallSearch ==
    /\ call = "find_listings_recursive" /\ ret = Pending
    /\ ret' = find_listings_recursive(arg, 0)
    /\ UNCHANGED <<call, arg, nest>>
    /\ UNCHANGED runVars

NextSearch ==
    \/ \E kind \in PlainKinds \cup SpecialKinds : Wrap(kind)
    \/ CallSearch

SpecSearch == InitSearch /\ [][NextSearch]_vars

(***************************************************************************)
(* Page content.  The markup is held by what the code reads of it: whether *)
(* the challenge marker occurs in it, its length, what each of the two     *)
(* embedded-JSON patterns matches, and the three next-page markers.        *)
(***************************************************************************)
\* a pattern's match: none, text json.loads rejects, or text it parses to data
NoMatch == [m |-> "none"]

BadJson == [m |-> "invalid"]

Json(data) == [m |-> "json", data |-> data]

\* extract_json_data(html): the first pattern that matches and parses, or None
extract_json_data(html) ==
    IF html.argonaut.m = "json" THEN html.argonaut.data
    ELSE IF html.next_data.m = "json" THEN html.next_data.data
    ELSE PyNone

\* the markup length below which a page with the marker is a challenge
ChallengeMaxLen == 5000

\* 'KPSDK' in page_source and len(page_source) < 5000
IsChallenge(html) == html.kpsdk /\ html.len < ChallengeMaxLen

\* "Check for next page"
HasMore(html) == html.rel_next \/ html.aria_next \/ html.testid_next

Markup(kpsdk, len, argonaut, next_data, rel, aria, testid) ==
    [kpsdk |-> kpsdk, len |-> len, argonaut |-> argonaut, next_data |-> next_data,
     rel_next |-> rel, aria_next |-> aria, testid_next |-> testid]

Listing101b == PyDict(One("id", PyInt(101)) \o One("prettyUrl", Str_abs))

Listing123456 ==
    PyDict(One("listingId", PyStr(<<"1","2","3","4","5","6">>))
           \o One("address", PyDict(One("state", PyStr(<<"V","I","C">>)))))

FixedPayload(rs) == Tiered(PyList(<<Tier(PyList(rs))>>))

\* the markup a page_source read may give
Markups ==
    { Markup(TRUE, ChallengeMaxLen - 1, NoMatch, NoMatch, FALSE, FALSE, FALSE),
      Markup(TRUE, ChallengeMaxLen, Json(FixedPayload(<<Listing101, ListingNoId, Listing102>>)),
             NoMatch, TRUE, FALSE, FALSE),
      Markup(FALSE, ChallengeMaxLen + 1, BadJson,
             Json(PyDict(One("tracking", Listing101)
                         \o One("props", PyList(<<Listing102, Listing123456, Listing101b>>)))),
             FALSE, FALSE, FALSE),
      Markup(FALSE, ChallengeMaxLen + 1, Json(FixedPayload(<<Listing101b, Listing101>>)),
             NoMatch, FALSE, FALSE, TRUE),
      Markup(FALSE, ChallengeMaxLen + 1, Json(FixedPayload(<<Listing102, ListingNullUrl>>)),
             NoMatch, TRUE, FALSE, FALSE),
      Markup(FALSE, ChallengeMaxLen + 1, Json(PyDict(One("props", ListingKasadaLat))),
             NoMatch, TRUE, FALSE, FALSE),
      Markup(FALSE, ChallengeMaxLen + 1, Json(EmptyDict), BadJson, FALSE, TRUE, FALSE),
      Markup(FALSE, ChallengeMaxLen - 1, NoMatch, Json(PyDict(One("tracking", Listing101))),
             FALSE, FALSE, FALSE) }

\* what find_elements gives on a page
PageDoms ==
    { Raise("WebDriverException", <<"d">>),
      Ok(<<>>),
      Ok(<<Href(<<"/","p","-","1","2","3","4","5","6">>),
           Href(<<"/","p","-","1","2","3","4","5">>),
           Href(<<"/","q","-","1","2","3","4","5","6">>),
           Href(<<"/","p","-","a","-","1","2","3","4","5","6","7">>)>>) }

(***************************************************************************)
(* scrape_page, scrape_rea and main                                        *)
(***************************************************************************)
S_Kasada == <<"K","a","s","a","d","a">>

S_blocked ==
    <<"B","l","o","c","k","e","d"," ","b","y"," ","K","a","s","a","d",
      "a"," ","b","o","t"," ","p","r","o","t","e","c","t","i","o","n">>

S_timeout ==
    <<"P","a","g","e"," ","l","o","a","d"," ","t","i","m","e","o","u",
      "t">>

\* str(e) of an exception of the browser session, and of a failed write to
\* the diagnostic stream
S_driver_error ==
    <<"M","e","s","s","a","g","e",":"," ","u","n","k","n","o","w","n",
      " ","e","r","r","o","r">>

S_broken_pipe ==
    <<"[","E","r","r","n","o"," ","3","2","]"," ","B","r","o","k","e",
      "n"," ","p","i","p","e">>

\* the most pages a run may be asked for
MaxPagesBound == 3

\* scrape_page's result dict as it starts; url is held by its page number
NewPageResult(n) ==
    [url |-> n, listings |-> <<>>, has_more |-> FALSE, error |-> PyNone]

NewResults == [listings |-> <<>>, pages_scraped |-> 0, errors |-> <<>>]

NoTrace == [calls |-> <<>>, json |-> <<>>]

NoMarkup == [m |-> "none"]

Init ==
    /\ call = "idle" /\ arg = <<>> /\ ret = Pending /\ nest = 0
    /\ \/ mode = "single" /\ max_pages = 0
       \/ mode = "multi" /\ max_pages \in (-1)..MaxPagesBound
    /\ pc = "create_driver"
    /\ driver = "none"
    /\ quit_calls = 0
    /\ page_num = 0
    /\ results = NewResults
    /\ seen_ids = {}
    /\ page_result = NewPageResult(0)
    /\ page_source = NoMarkup
    /\ requested = <<>>
    /\ merged = <<>>
    /\ trace = NoTrace

\* f"Page {page_num}: {error}"
PageError(n, error) == <<"P","a","g","e"," ">> \o IntStr(n) \o <<":"," ">> \o error

\* except Exception as e at the end of scrape_rea
RunError(msg) == [results EXCEPT !.errors = Append(@, msg)]

\* create_driver returns a session
CreateDriverOk ==
    /\ pc = "create_driver"
    /\ driver' = "open"
    /\ pc' = IF mode = "single" THEN "get" ELSE "loop"
    /\ UNCHANGED <<mode, max_pages, quit_calls, page_num, results, seen_ids,
                   page_result, page_source, requested, merged, trace>>
    /\ UNCHANGED extractVars

\* create_driver raises: scrape_rea records it, main's single-URL mode lets
\* it through; driver stays None
CreateDriverRaises ==
    /\ pc = "create_driver"
    /\ results' = IF mode = "multi" THEN RunError(S_driver_error) ELSE results
    /\ pc' = IF mode = "multi" THEN "finally" ELSE "finally_raise"
    /\ UNCHANGED <<mode, max_pages, driver, quit_calls, page_num, seen_ids,
                   page_result, page_source, requested, merged, trace>>
    /\ UNCHANGED extractVars

\* a variant of RangeHasNext that runs one page past the end
RangeHasNextInclusive(n, last) == n <= last

\* range(1, max_pages + 1) has a number after n (0 before the first)
RangeHasNext(n, last) == n < last

\* for page_num in range(1, max_pages + 1): the next page, up to the call
\* of scrape_page
LoopNext ==
    /\ pc = "loop" /\ RangeHasNext(page_num, max_pages)
    /\ page_num' = page_num + 1
    /\ page_result' = NewPageResult(page_num + 1)
    /\ trace' = NoTrace
    /\ pc' = "get"
    /\ UNCHANGED <<mode, max_pages, driver, quit_calls, results, seen_ids,
                   page_source, requested, merged>>
    /\ UNCHANGED extractVars

\* the range is used up
LoopEnd ==
    /\ pc = "loop" /\ ~RangeHasNext(page_num, max_pages)
    /\ pc' = "finally"
    /\ UNCHANGED <<mode, max_pages, driver, quit_calls, page_num, results, seen_ids,
                   page_result, page_source, requested, merged, trace>>
    /\ UNCHANGED extractVars

\* the loop body's write to the diagnostic stream fails: except Exception
LoopRaises ==
    /\ pc = "loop" /\ RangeHasNext(page_num, max_pages)
    /\ results' = RunError(S_broken_pipe)
    /\ pc' = "finally"
    /\ UNCHANGED <<mode, max_pages, driver, quit_calls, page_num, seen_ids,
                   page_result, page_source, requested, merged, trace>>
    /\ UNCHANGED extractVars

\* scrape_page's except clauses: the error slot is set, the page returns
PageFails(msg) ==
    /\ page_result' = [page_result EXCEPT !.error = PyStr(msg)]
    /\ pc' = "page_done"

\* driver.get(url) and the first page_source read
Navigate ==
    /\ pc = "get"
    /\ driver = "open"
    /\ requested' = Append(requested, page_result.url)
    /\ \/ PageFails(S_timeout) /\ UNCHANGED page_source
       \/ PageFails(S_driver_error) /\ UNCHANGED page_source
       \/ \E html \in Markups :
             /\ page_source' = html
             /\ pc' = IF IsChallenge(html) THEN "challenge" ELSE "scroll"
             /\ UNCHANGED page_result
    /\ UNCHANGED <<mode, max_pages, driver, quit_calls, page_num, results, seen_ids,
                   merged, trace>>
    /\ UNCHANGED extractVars

\* "Detected Kasada challenge, waiting": the waits, the mouse event and the
\* second page_source read
ChallengeWait ==
    /\ pc = "challenge"
    /\ \/ PageFails(S_driver_error) /\ UNCHANGED page_source
       \/ \E html \in Markups :
             /\ page_source' = html
             /\ IF IsChallenge(html)
                THEN PageFails(S_blocked)
                ELSE pc' = "scroll" /\ UNCHANGED page_result
    /\ UNCHANGED <<mode, max_pages, driver, quit_calls, page_num, results, seen_ids,
                   requested, merged, trace>>
    /\ UNCHANGED extractVars

\* scroll_page and "Get updated page source"
Scroll ==
    /\ pc = "scroll"
    /\ \/ PageFails(S_driver_error) /\ UNCHANGED page_source
       \/ \E html \in Markups :
             /\ page_source' = html
             /\ pc' = "extract_json"
             /\ UNCHANGED page_result
    /\ UNCHANGED <<mode, max_pages, driver, quit_calls, page_num, results, seen_ids,
                   requested, merged, trace>>
    /\ UNCHANGED extractVars

\* if json_data: result['listings'] = extract_listings_from_json(json_data)
JsonListings(json_data, listings) ==
    IF Truthy(json_data) THEN extract_listings_from_json(json_data) ELSE Ok(listings)

\* what follows the JSON extraction: its exception fails the page, its
\* listings are stored
JsonOutcome(got) ==
    IF got.kind = "raise"
    THEN /\ PageFails(got.msg)
         /\ trace' = [trace EXCEPT !.calls = Append(@, "json")]
    ELSE /\ page_result' = [page_result EXCEPT !.listings = got.val]
         /\ trace' = [calls |-> Append(trace.calls, "json"), json |-> got.val]
         /\ pc' = "fallback"

\* "Try to extract from JSON first"
ExtractJson ==
    /\ pc = "extract_json"
    /\ JsonOutcome(JsonListings(extract_json_data(page_source), page_result.listings))
    /\ UNCHANGED <<mode, max_pages, driver, quit_calls, page_num, results, seen_ids,
                   page_source, requested, merged>>
    /\ UNCHANGED extractVars

\* a variant of NeedsFallback that always falls back
NeedsFallbackAlways(listings) == TRUE

\* if not result['listings']
NeedsFallback(listings) == Len(listings) = 0

\* "Fall back to HTML extraction" and "Check for next page"
FallbackAndNext ==
    /\ pc = "fallback"
    /\ \/ /\ NeedsFallback(page_result.listings)
          /\ \E dom \in PageDoms :
                page_result' = [page_result EXCEPT
                                   !.listings = extract_listings_from_html(dom),
                                   !.has_more = HasMore(page_source)]
          /\ trace' = [trace EXCEPT !.calls = Append(@, "html")]
       \/ /\ ~NeedsFallback(page_result.listings)
          /\ page_result' = [page_result EXCEPT !.has_more = HasMore(page_source)]
          /\ UNCHANGED trace
    /\ pc' = "page_done"
    /\ UNCHANGED <<mode, max_pages, driver, quit_calls, page_num, results, seen_ids,
                   page_source, requested, merged>>
    /\ UNCHANGED extractVars

\* a variant of IsBlocking that never breaks out of the loop
IsBlockingNever(error) == FALSE

\* 'Kasada' in page_result['error']
IsBlocking(error) == Contains(error.v, S_Kasada)

\* a variant of Dedup that forgets to look the id up in seen_ids
RECURSIVE DedupUnchecked(_, _, _, _)
DedupUnchecked(page, i, listings, seen) ==
    IF i > Len(page) THEN [listings |-> listings, seen |-> seen]
    ELSE IF Truthy(Get(page[i], "external_id", PyNone))
    THEN DedupUnchecked(page, i + 1, Append(listings, page[i]),
                        seen \cup {Get(page[i], "external_id", PyNone)})
    ELSE DedupUnchecked(page, i + 1, listings, seen)

\* "Deduplicate": the page's listings from the i-th on, into [listings, seen]
RECURSIVE Dedup(_, _, _, _)
Dedup(page, i, listings, seen) ==
    IF i > Len(page) THEN [listings |-> listings, seen |-> seen]
    ELSE LET lid == Get(page[i], "external_id", PyNone)
         IN  IF Truthy(lid) /\ lid \notin seen
             THEN Dedup(page, i + 1, Append(listings, page[i]), seen \cup {lid})
             ELSE Dedup(page, i + 1, listings, seen)

\* scrape_rea's handling of a page that carries an error
HandleError ==
    /\ pc = "page_done" /\ mode = "multi"
    /\ Truthy(page_result.error)
    /\ results' = [results EXCEPT
                      !.errors = Append(@, PageError(page_num, page_result.error.v))]
    /\ pc' = IF IsBlocking(page_result.error) THEN "finally" ELSE "loop"
    /\ UNCHANGED <<mode, max_pages, driver, quit_calls, page_num, seen_ids,
                   page_result, page_source, requested, merged, trace>>
    /\ UNCHANGED extractVars

\* the loop's results after the page: d is [listings, seen]
Merged(d) ==
    /\ results' = [results EXCEPT !.listings = d.listings, !.pages_scraped = page_num]
    /\ seen_ids' = d.seen

\* scrape_rea's handling of an error-free page
MergePage ==
    /\ pc = "page_done" /\ mode = "multi"
    /\ ~Truthy(page_result.error)
    /\ Merged(Dedup(page_result.listings, 1, results.listings, seen_ids))
    /\ merged' = Append(merged, [page |-> page_num, listings |-> page_result.listings])
    /\ pc' = IF page_result.has_more THEN "loop" ELSE "finally"
    /\ UNCHANGED <<mode, max_pages, driver, quit_calls, page_num,
                   page_result, page_source, requested, trace>>
    /\ UNCHANGED extractVars

\* main's single-URL mode: print(json.dumps(result)), which may fail
PrintResult ==
    /\ pc = "page_done" /\ mode = "single"
    /\ pc' \in {"finally", "finally_raise"}
    /\ UNCHANGED <<mode, max_pages, driver, quit_calls, page_num, results, seen_ids,
                   page_result, page_source, requested, merged, trace>>
    /\ UNCHANGED extractVars

\* a variant of ShouldQuit that leaves the session open
ShouldQuitNever(d) == FALSE

\* if driver
ShouldQuit(d) == d = "open"

\* how the block ends: an exception on its way out stays on its way; one
\* raised by driver.quit() is swallowed by scrape_rea and leaves main
AfterFinally(quit_raises) ==
    IF pc = "finally_raise" \/ (quit_raises /\ mode = "single")
    THEN "raised" ELSE "return"

\* finally: if driver: driver.quit(); "closed" is a session quit() was
\* called on
Finally ==
    /\ pc \in {"finally", "finally_raise"}
    /\ IF ShouldQuit(driver)
       THEN /\ driver' = "closed"
            /\ quit_calls' = quit_calls + 1
            /\ \E quit_raises \in BOOLEAN : pc' = AfterFinally(quit_raises)
       ELSE /\ UNCHANGED <<driver, quit_calls>>
            /\ pc' = AfterFinally(FALSE)
    /\ UNCHANGED <<mode, max_pages, page_num, results, seen_ids,
                   page_result, page_source, requested, merged, trace>>
    /\ UNCHANGED extractVars

Next ==
    \/ CreateDriverOk
    \/ CreateDriverRaises
    \/ LoopNext
    \/ LoopEnd
    \/ LoopRaises
    \/ Navigate
    \/ ChallengeWait
    \/ Scroll
    \/ ExtractJson
    \/ FallbackAndNext
    \/ HandleError
    \/ MergePage
    \/ PrintResult
    \/ Finally

Spec == Init /\ [][Next]_vars

(***************************************************************************)
(* Properties of the extraction functions                                  *)
(***************************************************************************)
\* the listing records a finished call returned
Returned ==
    IF ret = Pending \/ ret.kind # "ok" THEN <<>>
    ELSE IF call = "parse_json_listing"
    THEN (IF IsDict(ret.val) THEN <<ret.val>> ELSE <<>>)
    ELSE ret.val

Finished(fn) == call = fn /\ ret # Pending

HasNonEmptyId(l) ==
    /\ Has(l, "external_id")
    /\ Item(l, "external_id").t = "str"
    /\ Len(Item(l, "external_id").v) > 0

\* an id that is null or the empty string
Blank(v) == v.t = "null" \/ (v.t = "str" /\ Len(v.v) = 0)

\* id and listingId are each missing or empty
NoUsableId(data) ==
    \A k \in {"id", "listingId"} : ~Has(data, k) \/ Blank(Item(data, k))

\* s ends with "-" and at least MinIdDigits digits
EndsWithId(s) ==
    \E n \in MinIdDigits..(Len(s) - 1) :
        /\ s[Len(s) - n] = "-"
        /\ \A j \in (Len(s) - n + 1)..Len(s) : IsDigit(s[j])

CleanCandidates == {Listing101, Listing102, ListingNoId}

CleanLists == UNION { [1..n -> CleanCandidates] : n \in 0..MaxResults }

HasIdKey(c) == Has(c, "id")

IdText(c) == IF c = Listing101 THEN <<"1", "0", "1">> ELSE <<"1", "0", "2">>

ExternalIds(ls) == [i \in 1..Len(ls) |-> Item(ls[i], "external_id").v]

\* C1: every record an extraction path returns has a non-empty string
\* external_id; a candidate with a missing or empty id (a link without a
\* trailing id of at least 6 digits) is dropped, appears nowhere in the
\* result, and dropping it raises no error.
C1_ExternalIdNonEmpty ==
    /\ \A i \in 1..Len(Returned) : HasNonEmptyId(Returned[i])
    /\ Finished("parse_json_listing") /\ NoUsableId(arg) => ret = Ok(PyNone)
    /\ Finished("extract_listings_from_json") =>
          \A rs \in CleanLists :
              arg = Tiered(PyList(<<Tier(PyList(rs))>>)) =>
                  /\ ret.kind = "ok"
                  /\ ExternalIds(ret.val) =
                        LET kept == SelectSeq(rs, HasIdKey)
                        IN  [i \in 1..Len(kept) |-> IdText(kept[i])]
    /\ Finished("extract_listings_from_html") =>
          /\ ret.kind = "ok"
          /\ arg.kind = "ok" =>
                \A i \in 1..Len(arg.val) :
                    LET got == arg.val[i]
                    IN  got.kind = "ok" /\ got.val.t = "str" /\ ~EndsWithId(got.val.v)
                        => \A j \in 1..Len(ret.val) : Item(ret.val[j], "url") # got.val

\* C1 witness: a raw listing whose only id is the empty string was dropped
C1_Witness ==
    /\ Finished("parse_json_listing")
    /\ Has(arg, "listingId") /\ Item(arg, "listingId") = PyStr(<<>>)
    /\ Has(arg, "address")
    /\ ret = Ok(PyNone)

\* C2: parse_json_listing never raises on a missing or wrong-typed
\* sub-field: with a usable id it returns a record, and it returns nothing
\* only when the id is missing.
C2_NeverRaises ==
    Finished("parse_json_listing") =>
        /\ ret.kind = "ok"
        /\ IsDict(ret.val) <=> ~IdMissing(arg)

\* the raw listing supplies no state: no address, an address that is not a
\* mapping, or an address without a state
NoStateSupplied(data) ==
    \/ ~Has(data, "address")
    \/ ~IsDict(Item(data, "address"))
    \/ ~Has(Item(data, "address"), "state")

\* C9: every record parse_json_listing returns has source 'rea', a
\* property_type ('rural' when the raw object has none) and a state that is
\* 'NSW' whenever the raw object does not supply one.
C9_Defaults ==
    Finished("parse_json_listing") /\ ret.kind = "ok" /\ IsDict(ret.val) =>
        /\ Has(ret.val, "source") /\ Item(ret.val, "source") = PyStr(S_rea)
        /\ Has(ret.val, "property_type")
        /\ ~Has(arg, "propertyType") =>
              Item(ret.val, "property_type") = PyStr(S_rural)
        /\ NoStateSupplied(arg) =>
              Has(ret.val, "state") /\ Item(ret.val, "state") = PyStr(S_NSW)

\* the payload's innermost object lies under a skipped key or inside a
\* confirmed listing
RECURSIVE Hidden(_)
Hidden(v) ==
    /\ IsWrapper(v)
    /\ \/ IsDict(v) /\ (Has(v, "tracking") \/ Has(v, "meta"))
       \/ IsDict(v) /\ Has(v, "child") /\ ~NoUsableId(v)
       \/ Hidden(Content(v))

\* the search returned a record of the payload's innermost object
InnermostReturned ==
    /\ ret.kind = "ok"
    /\ \E i \in 1..Len(ret.val) :
          Item(ret.val[i], "external_id").v = ToStr(ListingId(InnermostOf(arg)))

\* the innermost object is listing-shaped, with an id that is not empty
ValidShaped == LooksLikeListing(InnermostOf(arg)) /\ ~NoUsableId(InnermostOf(arg))

\* C3: a listing-shaped object at depth 11 is not returned whatever it
\* holds, and the same object at depth 9, not under a skipped key nor inside
\* a confirmed listing, is returned.
C3_DepthCutoff ==
    Finished("find_listings_recursive") /\ ValidShaped =>
        /\ nest = DepthLimit + 1 => ret.kind = "ok" /\ ~InnermostReturned
        /\ nest = DepthLimit - 1 /\ ~Hidden(arg) => InnermostReturned

\* what the search does guarantee: nothing deeper than DepthLimit is
\* returned, and an object no deeper, not hidden, is returned unless its
\* normalisation raises
DepthCutoffUnlessRaise ==
    Finished("find_listings_recursive") /\ ValidShaped =>
        /\ nest > DepthLimit => ret.kind = "ok" /\ ~InnermostReturned
        /\ nest <= DepthLimit /\ ~Hidden(arg) =>
              \/ InnermostReturned
              \/ ret.kind = "raise" /\ ret = parse_json_listing(InnermostOf(arg))

(***************************************************************************)
(* Properties of scrape_page, scrape_rea and main                          *)
(***************************************************************************)
\* the page result of a multi-page run carries the blocking error
Blocked == mode = "multi" /\ page_result.error = PyStr(S_blocked)

\* the last entry of the aggregate errors is e
LastErrorIs(e) ==
    Len(results.errors) > 0 /\ results.errors[Len(results.errors)] = e

\* C4: once a page result of scrape_rea carries the blocking error, the
\* error is recorded in the aggregate errors, no further page is requested
\* in that run, and the listings merged from earlier pages are kept.
C4_BlockedStopsRun ==
    /\ [](Blocked /\ pc \in {"finally", "return"}
            => LastErrorIs(PageError(page_num, S_blocked)))
    /\ [][Blocked => /\ requested' = requested
                     /\ page_result' = page_result
                     /\ results'.listings = results.listings
                     /\ pc' \in {"page_done", "finally", "return"}]_vars

\* C4 witness: a run blocked before its last page returned with the
\* listings of an earlier page
C4_Witness ==
    /\ Blocked /\ pc = "return"
    /\ page_num < max_pages
    /\ Len(results.listings) > 0
    /\ LastErrorIs(PageError(page_num, S_blocked))

\* C5: a page that failed contributes no listing to the aggregate, adds one
\* entry to errors and does not abort the run: unless its error is the
\* blocking error, the loop goes on to the next page while one is left.
C5_FailureDoesNotAbort ==
    [][pc = "page_done" /\ mode = "multi" /\ Truthy(page_result.error) =>
          /\ results'.listings = results.listings
          /\ Len(results'.errors) = Len(results.errors) + 1
          /\ page_result.error # PyStr(S_blocked) /\ page_num < max_pages
                => pc' = "loop"]_vars

\* the listings of the merged pages, in the order they were seen
RECURSIVE SeenFrom(_)
SeenFrom(k) ==
    IF k > Len(merged) THEN <<>> ELSE merged[k].listings \o SeenFrom(k + 1)

AllSeen == SeenFrom(1)

IdOf(l) == Item(l, "external_id")

\* the records of all whose id occurs at no earlier place, from the k-th on
RECURSIVE FirstOfEachId(_, _)
FirstOfEachId(all, k) ==
    IF k > Len(all) THEN <<>>
    ELSE (IF \A j \in 1..(k - 1) : IdOf(all[j]) # IdOf(all[k])
          THEN <<all[k]>> ELSE <<>>) \o FirstOfEachId(all, k + 1)

\* C6: the aggregate listings hold no two records with the same
\* external_id, and they are the first record seen of each id, in the order
\* seen: a later record with a seen id neither replaces nor reorders it.
C6_FirstSeenKept ==
    /\ \A i, j \in 1..Len(results.listings) :
          i # j => IdOf(results.listings[i]) # IdOf(results.listings[j])
    /\ results.listings = FirstOfEachId(AllSeen, 1)

\* C6 witness: a later page brought a different record with the id of a
\* record kept from the first page
C6_Witness ==
    /\ Len(merged) >= 2
    /\ \E i \in 1..Len(merged[1].listings) :
       \E j \in 1..Len(merged[2].listings) :
          /\ IdOf(merged[1].listings[i]) = IdOf(merged[2].listings[j])
          /\ merged[1].listings[i] # merged[2].listings[j]
          /\ \E k \in 1..Len(results.listings) :
                results.listings[k] = merged[1].listings[i]

\* C7: when create_driver succeeded, driver.quit() is called exactly once
\* before scrape_rea returns or main's single-URL mode exits, however the
\* run ended, and no page is requested after the session is closed.
C7_SessionReleasedOnce ==
    /\ [](/\ driver = "closed" <=> quit_calls = 1
          /\ driver # "closed" <=> quit_calls = 0
          /\ pc \in {"return", "raised"} => driver \in {"none", "closed"})
    /\ [][driver = "closed" => requested' = requested /\ driver' = driver]_vars

\* C7 witness: scrape_rea returned after an exception in the loop that
\* followed a requested page, the session closed
C7_Witness ==
    /\ mode = "multi" /\ pc = "return"
    /\ LastErrorIs(S_broken_pipe)
    /\ Len(requested) > 0
    /\ driver = "closed" /\ quit_calls = 1

\* scrape_page has gone through its extraction without an error
Extracted == pc = "page_done" /\ ~Truthy(page_result.error)

\* C8: in scrape_page the structured extraction runs before the DOM
\* extractor, the DOM extractor runs exactly when the structured extraction
\* gave no record, and records it gave are the page's listings unchanged.
C8_JsonBeforeDom ==
    /\ trace.calls \in {<<>>, <<"json">>, <<"json", "html">>}
    /\ Extracted =>
          /\ Len(trace.calls) > 0
          /\ Len(trace.calls) = 2 <=> Len(trace.json) = 0
          /\ Len(trace.json) > 0 => page_result.listings = trace.json

\* C8 witness: a payload was found, it gave no listing, and the DOM
\* extractor's records are the page's listings
C8_Witness ==
    /\ Extracted
    /\ Truthy(extract_json_data(page_source))
    /\ trace = [calls |-> <<"json", "html">>, json |-> <<>>]
    /\ Len(page_result.listings) > 0

\* an error-free page of scrape_rea that says no page follows
LastPage ==
    /\ mode = "multi" /\ page_num > 0
    /\ pc \in {"page_done", "finally", "return"}
    /\ ~Truthy(page_result.error) /\ ~page_result.has_more

\* the pages a run with this max_pages can reach
PageLimit == IF max_pages > 0 THEN max_pages ELSE 0

\* the statements of C10 that do not speak of max_pages
Sequential ==
    /\ [](mode = "multi" =>
            /\ requested = [i \in 1..Len(requested) |-> i]
            /\ results.pages_scraped =
                  IF Len(merged) = 0 THEN 0 ELSE merged[Len(merged)].page)
    /\ [][mode = "multi" =>
            /\ requested' # requested =>
                  Len(requested) = Len(merged) + Len(results.errors)
            /\ LastPage => /\ requested' = requested
                           /\ page_result' = page_result
                           /\ pc' \in {"finally", "return"}]_vars

\* C10 as stated: pages are requested one at a time from 1 upward, each
\* merged before the next is requested, at most max_pages of them and none
\* after an error-free page whose has_more is false; pages_scraped is at
\* most max_pages and is the last page merged without error (0 if none).
C10_AsStated ==
    /\ Sequential
    /\ [](mode = "multi" =>
            /\ Len(requested) <= max_pages
            /\ results.pages_scraped <= max_pages)

\* C10, amended: as stated, with max_pages counted as 0 when it is negative
C10_SequentialBounded ==
    /\ Sequential
    /\ [](mode = "multi" =>
            /\ Len(requested) <= PageLimit
            /\ results.pages_scraped <= PageLimit)

\* C10 witness: a run allowed three pages returned after its second page,
\* error-free, said that no page follows
C10_Witness ==
    /\ LastPage /\ pc = "return"
    /\ max_pages = 3
    /\ requested = <<1, 2>>
    /\ results.pages_scraped = 2

====
